---- MODULE Spec2Model ----
(***************************************************************************)
(* Model of simplejustwatchapi/query.py: the GraphQL request builders and  *)
(* the response normalizers of the JustWatch client.                       *)
(*                                                                         *)
(* A Python value v is the pair <<type, payload>>: v[1] names its type and  *)
(* v[2] is its payload (the characters of a str, the members of a list,    *)
(* the key-value function of a dict, the fields of a named tuple).  A      *)
(* raised exception is the pair of type "raise".                           *)
(* A country code is kept as a sequence of one-character strings, so that  *)
(* len() and str.upper() are computed on it; Text(code) is the code as it  *)
(* is interpolated into a string.  A query text is a sequence of chunks:   *)
(* the literal pieces of the templates and the interpolated codes.         *)
(***************************************************************************)
EXTENDS Integers, Sequences, FiniteSets, TLC

VARIABLES pc, call, result, trace

vars == <<pc, call, result, trace>>

(***************************************************************************)
(* Bounds of the model.                                                    *)
(***************************************************************************)
MaxCodeLen == 3
MaxCountries == 2
MaxList == 2

(***************************************************************************)
(* Python values.                                                          *)
(***************************************************************************)
PyNone == <<"NoneType", "None">>
PyStr(s) == <<"str", s>>
PyInt(n) == <<"int", n>>
PyFloat(s) == <<"float", s>>
PyList(s) == <<"list", s>>
PyDict(f) == <<"dict", f>>
PyTuple(name, f) == <<name, f>>
Raise(exc, msg) == <<"raise", [exc |-> exc, msg |-> msg]>>

IsRaise(v) == v[1] = "raise"

EmptyDict == [k \in {} |-> PyNone]

\* bool(v): the truth value Python gives v in `if v`
Truthy(v) ==
  CASE v[1] = "NoneType" -> FALSE
    [] v[1] = "str" -> v[2] # ""
    [] v[1] = "int" -> v[2] # 0
    [] v[1] = "list" -> Len(v[2]) # 0
    [] v[1] = "dict" -> DOMAIN v[2] # {}
    [] OTHER -> TRUE

\* d.get(k, default) of a dict d
GetOr(d, k, default) == IF k \in DOMAIN d[2] THEN d[2][k] ELSE default

\* d.get(k) of a dict d
Get(d, k) == GetOr(d, k, PyNone)

\* host + v, for a str constant host: TypeError unless v is a str
Concat(host, v) ==
  IF v[1] = "str" THEN PyStr(host \o v[2])
  ELSE Raise("TypeError", "can only concatenate str to str")

\* d[k]: KeyError when the dict d lacks k, TypeError when d is no dict
Index(d, k) ==
  IF d[1] # "dict" THEN Raise("TypeError", "object is not subscriptable")
  ELSE IF k \in DOMAIN d[2] THEN d[2][k]
  ELSE Raise("KeyError", k)

\* v.get(...) on a v that is no dict
NoGet == Raise("AttributeError", "object has no attribute 'get'")

\* for x in v, on a v that is no list
NotIterable == Raise("TypeError", "object is not iterable")

\* the value of evaluating the expressions `values` in order: the first one that
\* raises, or `otherwise` when none does
FirstRaise(values, otherwise) ==
  LET raised == {i \in 1..Len(values) : IsRaise(values[i])}
  IN  IF raised = {} THEN otherwise
      ELSE values[CHOOSE i \in raised : \A j \in raised : i <= j]

\* [f(x) for x in ...] given the per-element values: the list, or the first raise
Collect(values) == FirstRaise(values, PyList(values))

_DETAILS_URL == "https://justwatch.com"
_IMAGES_URL == "https://images.justwatch.com"

(***************************************************************************)
(* Strings whose characters matter: country codes.                         *)
(***************************************************************************)
Chars == {"u", "U", "s"}

\* str.upper() on one character
UpperChar(c) ==
  CASE c = "u" -> "U"
    [] c = "s" -> "S"
    [] OTHER -> c

\* code.upper()
Upper(code) == [i \in 1..Len(code) |-> UpperChar(code[i])]

\* the characters of a code as one string
RECURSIVE Text(_)
Text(code) == IF code = <<>> THEN "" ELSE Head(code) \o Text(Tail(code))

RECURSIVE SeqsUpTo(_, _)
SeqsUpTo(S, n) ==
  IF n = 0 THEN {<<>>}
  ELSE LET shorter == SeqsUpTo(S, n - 1)
       IN  shorter \cup {Append(s, x) : s \in {t \in shorter : Len(t) = n - 1}, x \in S}

Codes == SeqsUpTo(Chars, MaxCodeLen)

(***************************************************************************)
(* Query templates, as chunks.                                             *)
(***************************************************************************)
_GRAPHQL_DETAILS_QUERY ==
  <<"query GetTitleNode($nodeId, $language, $country, $formatPoster, $formatOfferIcon, $profile, $backdropProfile, $filter) { node(id: $nodeId) { ...TitleDetails __typename } __typename }">>

_GRAPHQL_SEARCH_QUERY ==
  <<"query GetSearchTitles($searchTitlesFilter, $country, $language, $first, $formatPoster, $formatOfferIcon, $profile, $backdropProfile, $filter) { popularTitles(country: $country filter: $searchTitlesFilter first: $first sortBy: POPULAR sortRandomSeed: 0) { edges { node { ...TitleDetails __typename } __typename } __typename } }">>

_GRAPHQL_DETAILS_FRAGMENT ==
  <<"fragment TitleDetails on MovieOrShow { id objectId objectType content(country: $country, language: $language) { ... } offers(country: $country, platform: WEB, filter: $filter) { ...TitleOffer } __typename }">>

_GRAPHQL_OFFER_FRAGMENT ==
  <<"fragment TitleOffer on Offer { id monetizationType ... package { ... } ... audioLanguages __typename }">>

\* _GRAPHQL_COUNTRY_OFFERS_ENTRY.format(country_code=country_code)
_GRAPHQL_COUNTRY_OFFERS_ENTRY(country_code) ==
  << "\n      ", country_code, ": offers(country: ", country_code,
     ", platform: WEB, filter: $filter) {\n        ...TitleOffer\n        __typename\n      }\n" >>

\* _GRAPHQL_OFFERS_BY_COUNTRY_QUERY.format(country_entries=country_entries)
_GRAPHQL_OFFERS_BY_COUNTRY_QUERY(country_entries) ==
  <<"\nquery GetTitleOffers($nodeId, $language, $formatOfferIcon, $filter) {\n  node(id: $nodeId) {\n    ... on MovieOrShow {\n      ">>
  \o country_entries
  \o <<"\n      __typename\n    }\n    __typename\n  }\n  __typename\n}\n">>

\* sep.join(parts), parts a sequence of chunk sequences
RECURSIVE Join(_, _)
Join(sep, parts) ==
  IF parts = <<>> THEN <<>>
  ELSE IF Len(parts) = 1 THEN parts[1]
  ELSE parts[1] \o <<sep>> \o Join(sep, Tail(parts))

(***************************************************************************)
(* Query builder.                                                          *)
(***************************************************************************)
\* the assertion of _assert_country_code_is_valid: Ok when it passes
Ok == <<"ok", "ok">>

\* faulty variant: the message names the upper-cased code
_assert_country_code_is_valid_upper(code) ==
  IF Len(code) = 2 THEN Ok
  ELSE Raise("AssertionError",
             "Invalid country code: " \o Text(Upper(code)) \o ", code must be 2 characters long")

_assert_country_code_is_valid(code) ==
  IF Len(code) = 2 THEN Ok
  ELSE Raise("AssertionError",
             "Invalid country code: " \o Text(code) \o ", code must be 2 characters long")

\* faulty variant: the country is passed on without .upper()
prepare_search_request_no_upper(title, country, language, count, best_only) ==
  LET valid == _assert_country_code_is_valid(country)
  IN  IF IsRaise(valid) THEN valid
      ELSE PyDict([
        operationName |-> "GetSearchTitles",
        variables |-> [
          first |-> count,
          searchTitlesFilter |-> [searchQuery |-> title],
          language |-> language,
          country |-> Text(country),
          formatPoster |-> "JPG",
          formatOfferIcon |-> "PNG",
          profile |-> "S718",
          backdropProfile |-> "S1920",
          filter |-> [bestOnly |-> best_only]],
        query |-> _GRAPHQL_SEARCH_QUERY \o _GRAPHQL_DETAILS_FRAGMENT \o _GRAPHQL_OFFER_FRAGMENT])

prepare_search_request(title, country, language, count, best_only) ==
  LET valid == _assert_country_code_is_valid(country)
  IN  IF IsRaise(valid) THEN valid
      ELSE PyDict([
        operationName |-> "GetSearchTitles",
        variables |-> [
          first |-> count,
          searchTitlesFilter |-> [searchQuery |-> title],
          language |-> language,
          country |-> Text(Upper(country)),
          formatPoster |-> "JPG",
          formatOfferIcon |-> "PNG",
          profile |-> "S718",
          backdropProfile |-> "S1920",
          filter |-> [bestOnly |-> best_only]],
        query |-> _GRAPHQL_SEARCH_QUERY \o _GRAPHQL_DETAILS_FRAGMENT \o _GRAPHQL_OFFER_FRAGMENT])

prepare_details_request(node_id, country, language, best_only) ==
  LET valid == _assert_country_code_is_valid(country)
  IN  IF IsRaise(valid) THEN valid
      ELSE PyDict([
        operationName |-> "GetTitleNode",
        variables |-> [
          nodeId |-> node_id,
          language |-> language,
          country |-> Text(Upper(country)),
          formatPoster |-> "JPG",
          formatOfferIcon |-> "PNG",
          profile |-> "S718",
          backdropProfile |-> "S1920",
          filter |-> [bestOnly |-> best_only]],
        query |-> _GRAPHQL_DETAILS_QUERY \o _GRAPHQL_DETAILS_FRAGMENT \o _GRAPHQL_OFFER_FRAGMENT])

\* the orders in which a Python set with the members S can be iterated
Orders(S) ==
  {s \in SeqsUpTo(S, Cardinality(S)) :
     Len(s) = Cardinality(S) /\ {s[i] : i \in 1..Len(s)} = S}

\* faulty variant: the offer fragment is appended to every country entry
_prepare_offers_for_countries_entry_fragment_per_country(order) ==
  LET offer_requests ==
        [i \in 1..Len(order) |->
           _GRAPHQL_COUNTRY_OFFERS_ENTRY(Text(Upper(order[i]))) \o _GRAPHQL_OFFER_FRAGMENT]
      main_body == _GRAPHQL_OFFERS_BY_COUNTRY_QUERY(Join("\n", offer_requests))
  IN  main_body

\* _prepare_offers_for_countries_entry(countries), the set iterated in `order`
_prepare_offers_for_countries_entry(order) ==
  LET offer_requests ==
        [i \in 1..Len(order) |-> _GRAPHQL_COUNTRY_OFFERS_ENTRY(Text(Upper(order[i])))]
      main_body == _GRAPHQL_OFFERS_BY_COUNTRY_QUERY(Join("\n", offer_requests))
  IN  main_body \o _GRAPHQL_OFFER_FRAGMENT

\* the first position of `order` whose code fails the assertion, 0 when none does
FirstInvalid(order) ==
  LET bad == {i \in 1..Len(order) : IsRaise(_assert_country_code_is_valid(order[i]))}
  IN  IF bad = {} THEN 0 ELSE CHOOSE i \in bad : \A j \in bad : i <= j

\* faulty variant: the query text is assembled before the arguments are validated
prepare_offers_for_countries_request_assemble_first(node_id, countries, order, language, best_only) ==
  LET query == _prepare_offers_for_countries_entry(order)
      assembled == <<<<"_prepare_offers_for_countries_entry", order>>>>
      bad == FirstInvalid(order)
      checked == IF bad = 0 THEN Len(order) ELSE bad
      asserts == [i \in 1..checked |-> <<"_assert_country_code_is_valid", order[i]>>]
  IN  IF countries = {}
      THEN [ret |-> Raise("AssertionError",
                          "Cannot prepare offers request without specified countries"),
            steps |-> assembled]
      ELSE IF bad # 0
      THEN [ret |-> _assert_country_code_is_valid(order[bad]), steps |-> assembled \o asserts]
      ELSE [ret |-> PyDict([
              operationName |-> "GetTitleOffers",
              variables |-> [
                nodeId |-> node_id,
                language |-> language,
                formatPoster |-> "JPG",
                formatOfferIcon |-> "PNG",
                profile |-> "S718",
                backdropProfile |-> "S1920",
                filter |-> [bestOnly |-> best_only]],
              query |-> query]),
            steps |-> assembled \o asserts]

\* prepare_offers_for_countries_request(node_id, countries, language, best_only), the
\* set `countries` iterated in `order`.  ret is what the call returns or raises; steps
\* lists the private helpers it called, in call order.
prepare_offers_for_countries_request(node_id, countries, order, language, best_only) ==
  IF countries = {}
  THEN [ret |-> Raise("AssertionError", "Cannot prepare offers request without specified countries"),
        steps |-> <<>>]
  ELSE LET bad == FirstInvalid(order)
           checked == IF bad = 0 THEN Len(order) ELSE bad
           asserts == [i \in 1..checked |-> <<"_assert_country_code_is_valid", order[i]>>]
       IN  IF bad # 0
           THEN [ret |-> _assert_country_code_is_valid(order[bad]), steps |-> asserts]
           ELSE [ret |-> PyDict([
                   operationName |-> "GetTitleOffers",
                   variables |-> [
                     nodeId |-> node_id,
                     language |-> language,
                     formatPoster |-> "JPG",
                     formatOfferIcon |-> "PNG",
                     profile |-> "S718",
                     backdropProfile |-> "S1920",
                     filter |-> [bestOnly |-> best_only]],
                   query |-> _prepare_offers_for_countries_entry(order)]),
                 steps |-> Append(asserts, <<"_prepare_offers_for_countries_entry", order>>)]

(***************************************************************************)
(* Response normalizer.                                                    *)
(***************************************************************************)
_parse_package(json) ==
  IF json[1] # "dict" THEN NoGet
  ELSE LET icon == Concat(_IMAGES_URL, Get(json, "icon"))
       IN  IF IsRaise(icon) THEN icon
           ELSE PyTuple("OfferPackage", [
                  id |-> Get(json, "id"),
                  package_id |-> Get(json, "packageId"),
                  name |-> Get(json, "clearName"),
                  technical_name |-> Get(json, "technicalName"),
                  icon |-> icon])

\* faulty variant: elementCount is read like the other fields, without a default
_parse_offer_no_default(json) ==
  IF json[1] # "dict" THEN NoGet
  ELSE LET package == IF IsRaise(Index(json, "package")) THEN Index(json, "package")
                      ELSE _parse_package(Index(json, "package"))
       IN  IF IsRaise(package) THEN package
           ELSE PyTuple("Offer", [
                  id |-> Get(json, "id"),
                  monetization_type |-> Get(json, "monetizationType"),
                  presentation_type |-> Get(json, "presentationType"),
                  price_string |-> Get(json, "retailPrice"),
                  price_value |-> Get(json, "retailPriceValue"),
                  price_currency |-> Get(json, "currency"),
                  last_change_retail_price_value |-> Get(json, "lastChangeRetailPriceValue"),
                  type |-> Get(json, "type"),
                  package |-> package,
                  url |-> Get(json, "standardWebURL"),
                  element_count |-> Get(json, "elementCount"),
                  available_to |-> Get(json, "availableTo"),
                  deeplink_roku |-> Get(json, "deeplinkRoku"),
                  subtitle_languages |-> Get(json, "subtitleLanguages"),
                  video_technology |-> Get(json, "videoTechnology"),
                  audio_technology |-> Get(json, "audioTechnology"),
                  audio_languages |-> Get(json, "audioLanguages")])

_parse_offer(json) ==
  IF json[1] # "dict" THEN NoGet
  ELSE LET package == IF IsRaise(Index(json, "package")) THEN Index(json, "package")
                      ELSE _parse_package(Index(json, "package"))
       IN  IF IsRaise(package) THEN package
           ELSE PyTuple("Offer", [
                  id |-> Get(json, "id"),
                  monetization_type |-> Get(json, "monetizationType"),
                  presentation_type |-> Get(json, "presentationType"),
                  price_string |-> Get(json, "retailPrice"),
                  price_value |-> Get(json, "retailPriceValue"),
                  price_currency |-> Get(json, "currency"),
                  last_change_retail_price_value |-> Get(json, "lastChangeRetailPriceValue"),
                  type |-> Get(json, "type"),
                  package |-> package,
                  url |-> Get(json, "standardWebURL"),
                  element_count |-> GetOr(json, "elementCount", PyInt(0)),
                  available_to |-> Get(json, "availableTo"),
                  deeplink_roku |-> Get(json, "deeplinkRoku"),
                  subtitle_languages |-> Get(json, "subtitleLanguages"),
                  video_technology |-> Get(json, "videoTechnology"),
                  audio_technology |-> Get(json, "audioTechnology"),
                  audio_languages |-> Get(json, "audioLanguages")])

\* [node.get("shortName") for node in content.get("genres", []) if node]
_parse_entry_genres(content) ==
  LET nodes == GetOr(content, "genres", PyList(<<>>))
  IN  IF nodes[1] # "list" THEN NotIterable
      ELSE LET kept == SelectSeq(nodes[2], Truthy)
           IN  Collect([i \in 1..Len(kept) |->
                          IF kept[i][1] # "dict" THEN NoGet
                          ELSE Get(kept[i], "shortName")])

\* external_ids.get("imdbId") if external_ids else None
_parse_entry_imdb_id(content) ==
  LET external_ids == Get(content, "externalIds")
  IN  IF ~Truthy(external_ids) THEN PyNone
      ELSE IF external_ids[1] # "dict" THEN NoGet
      ELSE Get(external_ids, "imdbId")

\* _IMAGES_URL + poster_url_field if poster_url_field else None
_parse_entry_poster(content) ==
  LET poster_url_field == Get(content, "posterUrl")
  IN  IF Truthy(poster_url_field) THEN Concat(_IMAGES_URL, poster_url_field) ELSE PyNone

\* [_IMAGES_URL + bd.get("backdropUrl") for bd in content.get("backdrops", []) if bd]
_parse_entry_backdrops(content) ==
  LET bds == GetOr(content, "backdrops", PyList(<<>>))
  IN  IF bds[1] # "list" THEN NotIterable
      ELSE LET kept == SelectSeq(bds[2], Truthy)
           IN  Collect([i \in 1..Len(kept) |->
                          IF kept[i][1] # "dict" THEN NoGet
                          ELSE Concat(_IMAGES_URL, Get(kept[i], "backdropUrl"))])

\* [_parse_offer(offer) for offer in json.get("offers", []) if offer]
_parse_entry_offers(json) ==
  LET offers == GetOr(json, "offers", PyList(<<>>))
  IN  IF offers[1] # "list" THEN NotIterable
      ELSE LET kept == SelectSeq(offers[2], Truthy)
           IN  Collect([i \in 1..Len(kept) |-> _parse_offer(kept[i])])

_parse_entry(json) ==
  IF json[1] # "dict" THEN NoGet
  ELSE LET content == Index(json, "content")
       IN  IF IsRaise(content) THEN content
           ELSE IF content[1] # "dict" THEN NoGet
           ELSE LET url == Concat(_DETAILS_URL, Get(content, "fullPath"))
                    genres == _parse_entry_genres(content)
                    imdb_id == _parse_entry_imdb_id(content)
                    poster == _parse_entry_poster(content)
                    backdrops == _parse_entry_backdrops(content)
                    offers == _parse_entry_offers(json)
                IN  FirstRaise(<<url, genres, imdb_id, poster, backdrops, offers>>,
                      PyTuple("MediaEntry", [
                        entry_id |-> Get(json, "id"),
                        object_id |-> Get(json, "objectId"),
                        object_type |-> Get(json, "objectType"),
                        title |-> Get(content, "title"),
                        url |-> url,
                        release_year |-> Get(content, "originalReleaseYear"),
                        release_date |-> Get(content, "originalReleaseDate"),
                        runtime_minutes |-> Get(content, "runtime"),
                        short_description |-> Get(content, "shortDescription"),
                        genres |-> genres,
                        imdb_id |-> imdb_id,
                        poster |-> poster,
                        backdrops |-> backdrops,
                        offers |-> offers]))

\* d[k] of a value that may itself be a raise
IndexIn(d, k) == IF IsRaise(d) THEN d ELSE Index(d, k)

parse_search_response(json) ==
  LET edges == IndexIn(IndexIn(IndexIn(json, "data"), "popularTitles"), "edges")
  IN  IF IsRaise(edges) THEN edges
      ELSE IF edges[1] # "list" THEN NotIterable
      ELSE Collect([i \in 1..Len(edges[2]) |->
                      LET node == Index(edges[2][i], "node")
                      IN  IF IsRaise(node) THEN node ELSE _parse_entry(node)])

\* faulty variant: None is returned only when the document has no data
parse_details_response_data_first(json) ==
  IF json[1] # "dict" THEN NotIterable
  ELSE IF "data" \in DOMAIN json[2]
  THEN LET node == IndexIn(IndexIn(json, "data"), "node")
       IN  IF IsRaise(node) THEN node ELSE _parse_entry(node)
  ELSE PyNone

parse_details_response(json) ==
  IF json[1] # "dict" THEN NotIterable
  ELSE IF "errors" \notin DOMAIN json[2]
  THEN LET node == IndexIn(IndexIn(json, "data"), "node")
       IN  IF IsRaise(node) THEN node ELSE _parse_entry(node)
  ELSE PyNone

\* faulty variant: the country is looked up as passed in, without .upper()
_country_offers_no_upper(offers_node, country) ==
  IF offers_node[1] # "dict" THEN NoGet
  ELSE LET offers == GetOr(offers_node, Text(country), PyList(<<>>))
       IN  IF offers[1] # "list" THEN NotIterable
           ELSE Collect([i \in 1..Len(offers[2]) |-> _parse_offer(offers[2][i])])

\* list(map(_parse_offer, offers_node.get(country.upper(), [])))
_country_offers(offers_node, country) ==
  IF offers_node[1] # "dict" THEN NoGet
  ELSE LET offers == GetOr(offers_node, Text(Upper(country)), PyList(<<>>))
       IN  IF offers[1] # "list" THEN NotIterable
           ELSE Collect([i \in 1..Len(offers[2]) |-> _parse_offer(offers[2][i])])

\* parse_offers_for_countries_response(json, countries), the set `countries` iterated
\* in `order`; the dict returned is keyed by the countries as passed in
parse_offers_for_countries_response(json, countries, order) ==
  LET offers_node == IndexIn(IndexIn(json, "data"), "node")
  IN  IF IsRaise(offers_node) THEN offers_node
      ELSE FirstRaise([i \in 1..Len(order) |-> _country_offers(offers_node, order[i])],
                      PyDict([c \in {Text(country) : country \in countries} |->
                                _country_offers(offers_node,
                                  CHOOSE country \in countries : Text(country) = c)]))

(***************************************************************************)
(* The calling frame: one call at a time, from idle.                       *)
(***************************************************************************)
Titles == {"TITLE 1", "TITLE 2"}
NodeIds == {"NODE ID 1", "NODE ID 2"}
Languages == {"en", "fr"}
Counts == {5, 10}

NoCall == [fn |-> "none"]
NoResult == <<"none", "none">>

Init ==
  /\ pc = "idle"
  /\ call = NoCall
  /\ result = NoResult
  /\ trace = <<>>

PrepareSearchRequest ==
  /\ pc = "idle"
  /\ \E title \in Titles, country \in Codes, language \in Languages,
        count \in Counts, best_only \in BOOLEAN :
       /\ call' = [fn |-> "prepare_search_request", title |-> title, country |-> country,
                   language |-> language, count |-> count, best_only |-> best_only]
       /\ result' = prepare_search_request(title, country, language, count, best_only)
       /\ trace' = <<<<"_assert_country_code_is_valid", country>>>>
  /\ pc' = "returned"

PrepareDetailsRequest ==
  /\ pc = "idle"
  /\ \E node_id \in NodeIds, country \in Codes, language \in Languages, best_only \in BOOLEAN :
       /\ call' = [fn |-> "prepare_details_request", node_id |-> node_id, country |-> country,
                   language |-> language, best_only |-> best_only]
       /\ result' = prepare_details_request(node_id, country, language, best_only)
       /\ trace' = <<<<"_assert_country_code_is_valid", country>>>>
  /\ pc' = "returned"

CountryPool ==
  {c \in Codes : c \in {<<"u", "s">>, <<"U", "s">>, <<"s", "u">>, <<"u">>, <<"u", "s", "u">>, <<>>}}

CountrySets == {S \in SUBSET CountryPool : Cardinality(S) <= MaxCountries}

PrepareOffersForCountriesRequest ==
  /\ pc = "idle"
  /\ \E node_id \in NodeIds, countries \in CountrySets, language \in Languages,
        best_only \in BOOLEAN :
       \E order \in Orders(countries) :
         LET r == prepare_offers_for_countries_request(node_id, countries, order,
                                                      language, best_only)
         IN  /\ call' = [fn |-> "prepare_offers_for_countries_request", node_id |-> node_id,
                         countries |-> countries, language |-> language,
                         best_only |-> best_only]
             /\ result' = r.ret
             /\ trace' = r.steps
  /\ pc' = "returned"

(***************************************************************************)
(* JSON documents the transport can hand to the normalizer.                *)
(***************************************************************************)
\* the dict f without the keys in `keys`
Without(f, keys) == [k \in DOMAIN f \ keys |-> f[k]]

\* lists of at most MaxList members of S
Lists(S) == {PyList(l) : l \in SeqsUpTo(S, MaxList)}

PackageJson ==
  [id |-> PyStr("cGF8OA=="), packageId |-> PyInt(8), clearName |-> PyStr("Netflix"),
   technicalName |-> PyStr("netflix"), icon |-> PyStr("/icon/207360008/s100/netflix.png"),
   __typename |-> PyStr("Package")]

FullOfferJson ==
  [id |-> PyStr("b2Z8dHM="), monetizationType |-> PyStr("FLATRATE"),
   presentationType |-> PyStr("HD"), retailPrice |-> PyStr("$1.99"),
   retailPriceValue |-> PyFloat("1.99"), currency |-> PyStr("USD"),
   lastChangeRetailPriceValue |-> PyFloat("2.99"), type |-> PyStr("STANDARD"),
   package |-> PyDict(PackageJson), standardWebURL |-> PyStr("https://netflix.com/1"),
   elementCount |-> PyInt(3), availableTo |-> PyStr("2026-01-01"),
   deeplinkRoku |-> PyStr("roku://1"), subtitleLanguages |-> PyList(<<PyStr("en")>>),
   videoTechnology |-> PyList(<<>>), audioTechnology |-> PyList(<<PyStr("DOLBY")>>),
   audioLanguages |-> PyList(<<PyStr("en")>>), __typename |-> PyStr("Offer")]

\* the offer fields the API may leave out
NullableOfferKeys ==
  {"retailPrice", "retailPriceValue", "lastChangeRetailPriceValue", "elementCount",
   "availableTo", "deeplinkRoku"}

\* well-formed offers: a package, and any of the nullable fields left out
OfferPool ==
  {PyDict(Without(FullOfferJson, absent)) : absent \in SUBSET NullableOfferKeys}
  \cup {PyDict(Without(FullOfferJson, {k})) : k \in DOMAIN FullOfferJson \ {"package"}}

\* what a list of offers can hold: null, an empty object, well-formed offers, an
\* offer without package
OfferItems ==
  {PyNone, PyDict(EmptyDict), PyDict(FullOfferJson),
   PyDict(Without(FullOfferJson, NullableOfferKeys)),
   PyDict(Without(FullOfferJson, {"package"}))}

BackdropItems ==
  {PyNone, PyDict(EmptyDict),
   PyDict([backdropUrl |-> PyStr("/backdrop/1/s1920/b.jpg"), __typename |-> PyStr("Backdrop")]),
   PyDict([__typename |-> PyStr("Backdrop")])}

GenreItems ==
  {PyNone, PyDict([shortName |-> PyStr("act"), __typename |-> PyStr("Genre")]),
   PyDict([shortName |-> PyStr("drm"), __typename |-> PyStr("Genre")])}

ContentJson ==
  [title |-> PyStr("TITLE 1"), fullPath |-> PyStr("/us/movie/title-1"),
   originalReleaseYear |-> PyInt(2020), originalReleaseDate |-> PyStr("2020-01-01"),
   runtime |-> PyInt(120), shortDescription |-> PyStr("about"),
   genres |-> PyList(<<PyDict([shortName |-> PyStr("act")])>>),
   externalIds |-> PyDict([imdbId |-> PyStr("tt0000001")]),
   posterUrl |-> PyStr("/poster/1/s718/p.jpg"),
   backdrops |-> PyList(<<PyDict([backdropUrl |-> PyStr("/backdrop/1/s1920/b.jpg")])>>),
   __typename |-> PyStr("MovieContent")]

EntryJson ==
  [id |-> PyStr("tm1"), objectId |-> PyInt(1), objectType |-> PyStr("MOVIE"),
   content |-> PyDict(ContentJson), offers |-> PyList(<<PyDict(FullOfferJson)>>),
   __typename |-> PyStr("Movie")]

\* the dicts f with key k left out or bound to a member of `values`
WithOptional(f, k, values) ==
  {Without(f, {k})} \cup {[kk \in DOMAIN f \cup {k} |-> IF kk = k THEN v ELSE f[kk]] : v \in values}

\* title entries: poster and backdrops vary
PosterEntries ==
  {PyDict([EntryJson EXCEPT !.content = PyDict(c2)]) :
     c2 \in UNION {WithOptional(c1, "backdrops", Lists(BackdropItems)) :
                     c1 \in WithOptional(ContentJson, "posterUrl",
                                         {PyStr("/poster/1/s718/p.jpg"), PyNone})}}

\* title entries: genres and offers vary
ListEntries ==
  {PyDict(e) :
     e \in UNION {WithOptional([EntryJson EXCEPT !.content = PyDict(c)], "offers",
                               Lists(OfferItems)) :
                    c \in WithOptional(ContentJson, "genres", Lists(GenreItems))}}

\* title entries: the external ids, the path and the content block vary
ShapeEntries ==
  {PyDict([EntryJson EXCEPT !.content = PyDict(c2)]) :
     c2 \in UNION {WithOptional(c1, "fullPath", {PyStr("/us/movie/title-1")}) :
                     c1 \in WithOptional(ContentJson, "externalIds",
                                         {PyNone, PyDict([imdbId |-> PyStr("tt0000001")])})}}
  \cup {PyDict(Without(EntryJson, {"content"}))}

EntryPool == PosterEntries \cup ListEntries \cup ShapeEntries

\* GetTitleNode responses: with or without errors, with or without (partial) data
DetailsDocs ==
  UNION {WithOptional(d, "errors", {PyList(<<PyDict([message |-> PyStr("not found")])>>)}) :
           d \in {EmptyDict, [data |-> PyNone], [data |-> PyDict([node |-> PyNone])]}
                 \cup {[data |-> PyDict([node |-> e])] : e \in EntryPool}}

\* GetSearchTitles responses
EdgeItems ==
  {PyDict([node |-> PyDict(EntryJson), __typename |-> PyStr("Edge")]),
   PyDict([node |-> PyDict([EntryJson EXCEPT !.id = PyStr("tm2"), !.offers = PyList(<<>>)])]),
   PyDict([node |-> PyDict(Without(EntryJson, {"content"}))]),
   PyDict([node |-> PyDict([EntryJson EXCEPT
                              !.content = PyDict(Without(ContentJson, {"fullPath"}))])]),
   PyDict([node |-> PyDict([k \in (DOMAIN EntryJson \ {"objectId"}) \cup {"unexpected"} |->
                              IF k = "unexpected" THEN PyInt(1)
                              ELSE IF k = "content"
                              THEN PyDict(Without(ContentJson, {"title", "posterUrl"}))
                              ELSE EntryJson[k]])])}

SearchDocs ==
  {EmptyDict, [data |-> PyDict(EmptyDict)]}
  \cup {[data |-> PyDict([popularTitles |-> PyDict(t)])] :
          t \in WithOptional([__typename |-> PyStr("PopularTitlesConnection")], "edges",
                             Lists(EdgeItems) \cup {PyNone})}

\* GetTitleOffers responses: the node has a field per country the API answered for
OffersNodes ==
  UNION {WithOptional(n, "SU", {PyList(<<PyDict(FullOfferJson)>>)}) :
           n \in WithOptional([__typename |-> PyStr("Movie")], "US",
                              Lists(OfferItems) \cup {PyList(<<o>>) : o \in OfferPool}
                              \cup {PyNone})}

OffersDocs ==
  {EmptyDict, [data |-> PyDict([node |-> PyNone])]}
  \cup {[data |-> PyDict([node |-> PyDict(n)])] : n \in OffersNodes}

ParseSearchResponse ==
  /\ pc = "idle"
  /\ \E json \in SearchDocs :
       /\ call' = [fn |-> "parse_search_response", json |-> PyDict(json)]
       /\ result' = parse_search_response(PyDict(json))
  /\ trace' = <<>>
  /\ pc' = "returned"

ParseDetailsResponse ==
  /\ pc = "idle"
  /\ \E json \in DetailsDocs :
       /\ call' = [fn |-> "parse_details_response", json |-> PyDict(json)]
       /\ result' = parse_details_response(PyDict(json))
  /\ trace' = <<>>
  /\ pc' = "returned"

ParseOffersForCountriesResponse ==
  /\ pc = "idle"
  /\ \E json \in OffersDocs, countries \in CountrySets :
       \E order \in Orders(countries) :
         /\ call' = [fn |-> "parse_offers_for_countries_response", json |-> PyDict(json),
                     countries |-> countries]
         /\ result' = parse_offers_for_countries_response(PyDict(json), countries, order)
  /\ trace' = <<>>
  /\ pc' = "returned"

\* the caller takes the result; the next call starts from idle
Return ==
  /\ pc = "returned"
  /\ pc' = "idle"
  /\ call' = NoCall
  /\ result' = NoResult
  /\ trace' = <<>>

Next ==
  \/ PrepareSearchRequest
  \/ PrepareDetailsRequest
  \/ PrepareOffersForCountriesRequest
  \/ ParseSearchResponse
  \/ ParseDetailsResponse
  \/ ParseOffersForCountriesResponse
  \/ Return

Spec == Init /\ [][Next]_vars

(***************************************************************************)
(* Helpers of the properties.                                              *)
(***************************************************************************)
Returned(fn) == pc = "returned" /\ call.fn = fn

\* the chunks of `block` stand in `text` from position i on
OccursAt(text, i, block) ==
  /\ i >= 1
  /\ i + Len(block) - 1 <= Len(text)
  /\ \A k \in 1..Len(block) : text[i + k - 1] = block[k]

Positions(text, chunk) == {i \in 1..Len(text) : text[i] = chunk}

InvalidCodeMessage(code) ==
  "Invalid country code: " \o Text(code) \o ", code must be 2 characters long"

(***************************************************************************)
(* C1: a country code whose length is not 2 makes each builder raise       *)
(* "Invalid country code: <code>, code must be 2 characters long", with    *)
(* the code as passed in, and no request is returned.  For the offers      *)
(* builder the code named is a member of the set whose length is not 2.    *)
(***************************************************************************)
C1_InvalidCountryCodeRaises ==
  /\ (pc = "returned" /\ call.fn \in {"prepare_search_request", "prepare_details_request"}
        /\ Len(call.country) # 2)
       => /\ result = Raise("AssertionError", InvalidCodeMessage(call.country))
          /\ call.country = <<>> =>
               result[2].msg = "Invalid country code: , code must be 2 characters long"
          /\ call.country = <<"u">> =>
               result[2].msg = "Invalid country code: u, code must be 2 characters long"
          /\ call.country = <<"u", "s", "u">> =>
               result[2].msg = "Invalid country code: usu, code must be 2 characters long"
  /\ (Returned("prepare_offers_for_countries_request")
        /\ \E c \in call.countries : Len(c) # 2)
       => \E c \in call.countries :
            /\ Len(c) # 2
            /\ result = Raise("AssertionError", InvalidCodeMessage(c))

C1_Witness ==
  /\ Returned("prepare_offers_for_countries_request")
  /\ call.countries = {<<"u", "s">>, <<"u", "s", "u">>}
  /\ result = Raise("AssertionError",
                    "Invalid country code: usu, code must be 2 characters long")

(***************************************************************************)
(* C2: for a 2-character country code in any letter case, the search and   *)
(* details builders return exactly the expected request body: operation    *)
(* name, the call's own variables unchanged, country upper-cased, the four *)
(* constants, filter.bestOnly = best_only, and the query made of the base  *)
(* query, the title-details fragment and the offer fragment, in that order.*)
(***************************************************************************)
C2_RequestBody ==
  /\ (Returned("prepare_search_request") /\ Len(call.country) = 2)
       => /\ result =
               PyDict([
                 operationName |-> "GetSearchTitles",
                 variables |-> [
                   first |-> call.count,
                   searchTitlesFilter |-> [searchQuery |-> call.title],
                   language |-> call.language,
                   country |-> Text(Upper(call.country)),
                   formatPoster |-> "JPG",
                   formatOfferIcon |-> "PNG",
                   profile |-> "S718",
                   backdropProfile |-> "S1920",
                   filter |-> [bestOnly |-> call.best_only]],
                 query |-> <<_GRAPHQL_SEARCH_QUERY[1], _GRAPHQL_DETAILS_FRAGMENT[1],
                             _GRAPHQL_OFFER_FRAGMENT[1]>>])
          /\ call.country \in {<<"u", "s">>, <<"U", "s">>, <<"U", "S">>}
               => result[2].variables.country = "US"
          /\ call.country = <<"s", "u">> => result[2].variables.country = "SU"
  /\ (Returned("prepare_details_request") /\ Len(call.country) = 2)
       => /\ result =
               PyDict([
                 operationName |-> "GetTitleNode",
                 variables |-> [
                   nodeId |-> call.node_id,
                   language |-> call.language,
                   country |-> Text(Upper(call.country)),
                   formatPoster |-> "JPG",
                   formatOfferIcon |-> "PNG",
                   profile |-> "S718",
                   backdropProfile |-> "S1920",
                   filter |-> [bestOnly |-> call.best_only]],
                 query |-> <<_GRAPHQL_DETAILS_QUERY[1], _GRAPHQL_DETAILS_FRAGMENT[1],
                             _GRAPHQL_OFFER_FRAGMENT[1]>>])
          /\ call.country \in {<<"u", "s">>, <<"U", "s">>, <<"U", "S">>}
               => result[2].variables.country = "US"
          /\ call.country = <<"s", "u">> => result[2].variables.country = "SU"

C2_Witness ==
  /\ Returned("prepare_search_request")
  /\ call.country = <<"U", "s">>
  /\ call.best_only = FALSE
  /\ result[1] = "dict"
  /\ result[2].variables.country = "US"
  /\ result[2].variables.filter.bestOnly = FALSE

(***************************************************************************)
(* C3: for a non-empty set of 2-character codes the offers query text      *)
(* holds, for each country, the block "<CODE>: offers(country: <CODE>,     *)
(* platform: WEB, filter: $filter) { ...TitleOffer ... }" with the         *)
(* upper-cased code as alias and argument; there is one block per country, *)
(* every block lies inside the single node(id: $nodeId) { ... on           *)
(* MovieOrShow { ... } } query, and the offer fragment definition stands   *)
(* exactly once in the text, at its end.                                   *)
(***************************************************************************)
C3_Block(code) ==
  << "\n      ", code, ": offers(country: ", code,
     ", platform: WEB, filter: $filter) {\n        ...TitleOffer\n        __typename\n      }\n" >>

C3_QueryOpen ==
  "\nquery GetTitleOffers($nodeId, $language, $formatOfferIcon, $filter) {\n  node(id: $nodeId) {\n    ... on MovieOrShow {\n      "

C3_QueryClose == "\n      __typename\n    }\n    __typename\n  }\n  __typename\n}\n"

C3_CountryBlocks ==
  (Returned("prepare_offers_for_countries_request")
     /\ call.countries # {}
     /\ \A c \in call.countries : Len(c) = 2)
    => /\ result[1] = "dict"
       /\ LET q == result[2].query
          IN  /\ \A c \in call.countries :
                   \E i \in 1..Len(q) :
                     /\ OccursAt(q, i, C3_Block(Text(Upper(c))))
                     /\ \E o \in Positions(q, C3_QueryOpen), e \in Positions(q, C3_QueryClose) :
                          o < i /\ i + Len(C3_Block("")) - 1 < e
              /\ Cardinality(Positions(q, ": offers(country: ")) = Cardinality(call.countries)
              /\ Positions(q, C3_QueryOpen) = {1}
              /\ Positions(q, C3_QueryClose) = {Len(q) - 1}
              /\ Positions(q, _GRAPHQL_OFFER_FRAGMENT[1]) = {Len(q)}
       /\ call.countries = {<<"u", "s">>, <<"s", "u">>}
            => \E i, j \in 1..Len(result[2].query) :
                 /\ OccursAt(result[2].query, i, C3_Block("US"))
                 /\ OccursAt(result[2].query, j, C3_Block("SU"))

C3_Witness ==
  /\ Returned("prepare_offers_for_countries_request")
  /\ call.countries = {<<"u", "s">>, <<"s", "u">>}
  /\ result[1] = "dict"
  /\ Cardinality(Positions(result[2].query, "US")) = 2
  /\ Cardinality(Positions(result[2].query, "SU")) = 2

(***************************************************************************)
(* C4: with an empty country set the offers builder raises an error that   *)
(* is not the per-code "Invalid country code" error, and whenever the      *)
(* offers builder raises (empty set or an invalid code) the query text was *)
(* not assembled: _prepare_offers_for_countries_entry was not called.      *)
(***************************************************************************)
C4_RaisedBeforeAssembly ==
  Returned("prepare_offers_for_countries_request")
    => /\ call.countries = {}
            => /\ result = Raise("AssertionError",
                                 "Cannot prepare offers request without specified countries")
               /\ \A c \in Codes : result[2].msg # InvalidCodeMessage(c)
       /\ IsRaise(result)
            => \A i \in 1..Len(trace) : trace[i][1] # "_prepare_offers_for_countries_entry"
       /\ ~IsRaise(result)
            => /\ trace[Len(trace)][1] = "_prepare_offers_for_countries_entry"
               /\ \A i \in 1..(Len(trace) - 1) : trace[i][1] = "_assert_country_code_is_valid"

C4_Witness ==
  /\ Returned("prepare_offers_for_countries_request")
  /\ call.countries = {}
  /\ IsRaise(result)
  /\ trace = <<>>

(***************************************************************************)
(* Helpers of the normalizer's properties.                                 *)
(***************************************************************************)
IsNotNone(v) == v[1] # "NoneType"

HasKey(d, k) == d[1] = "dict" /\ k \in DOMAIN d[2]

\* an offer object _parse_offer accepts: it has a package with an icon path
WellFormedOffer(o) ==
  /\ HasKey(o, "package")
  /\ HasKey(o[2]["package"], "icon")
  /\ o[2]["package"][2]["icon"][1] = "str"

\* the document is {"data": {"node": {...}}}
HasNodeObject(json) ==
  /\ HasKey(json, "data")
  /\ HasKey(json[2]["data"], "node")
  /\ json[2]["data"][2]["node"][1] = "dict"

NodeOf(json) == json[2]["data"][2]["node"]

(***************************************************************************)
(* C5: parse_search_response returns one normalized MediaEntry per edge of *)
(* data.popularTitles.edges, in edge order, and returns an empty sequence, *)
(* raising nothing, when the edges array is empty or absent from           *)
(* data.popularTitles.                                                     *)
(***************************************************************************)
C5_SearchEdges ==
  (Returned("parse_search_response")
     /\ HasKey(call.json, "data")
     /\ HasKey(call.json[2]["data"], "popularTitles")
     /\ call.json[2]["data"][2]["popularTitles"][1] = "dict")
    => LET titles == call.json[2]["data"][2]["popularTitles"]
       IN  /\ ~HasKey(titles, "edges") => result = PyList(<<>>)
           /\ (HasKey(titles, "edges") /\ titles[2]["edges"][1] = "list")
                => LET edges == titles[2]["edges"][2]
                   IN  /\ edges = <<>> => result = PyList(<<>>)
                       /\ (\A i \in 1..Len(edges) :
                             /\ HasKey(edges[i], "node")
                             /\ ~IsRaise(_parse_entry(edges[i][2]["node"])))
                            => result = PyList([i \in 1..Len(edges) |->
                                                  _parse_entry(edges[i][2]["node"])])

(***************************************************************************)
(* C6: parse_details_response returns None, raising nothing, whenever the  *)
(* document has an errors key, whatever data it has besides; without an    *)
(* errors key it returns the normalization of data.node.                   *)
(***************************************************************************)
C6_DetailsErrorsKey ==
  Returned("parse_details_response")
    => /\ HasKey(call.json, "errors") => result = PyNone
       /\ (~HasKey(call.json, "errors") /\ HasNodeObject(call.json))
            => /\ result = _parse_entry(NodeOf(call.json))
               /\ NodeOf(call.json) = PyDict(EntryJson)
                    => /\ result[1] = "MediaEntry"
                       /\ result[2].entry_id = PyStr("tm1")
                       /\ result[2].url = PyStr("https://justwatch.com/us/movie/title-1")

C6_Witness ==
  /\ Returned("parse_details_response")
  /\ HasKey(call.json, "errors")
  /\ HasNodeObject(call.json)
  /\ NodeOf(call.json) = PyDict(EntryJson)
  /\ result = PyNone

(***************************************************************************)
(* C7: for a document with a data.node object whose requested country      *)
(* fields hold lists of well-formed offers, parse_offers_for_countries_-    *)
(* response returns a mapping whose keys are exactly the requested         *)
(* countries: a country whose upper-cased code is a field of data.node is  *)
(* bound to the normalized offers of that field, in order; a country whose *)
(* upper-cased code is no field is bound to an empty sequence; fields that *)
(* were not requested do not appear.                                       *)
(***************************************************************************)
C7_FieldOf(c) == Text(Upper(c))

C7_Requested(json, countries) ==
  \A c \in countries :
    HasKey(NodeOf(json), C7_FieldOf(c))
      => /\ NodeOf(json)[2][C7_FieldOf(c)][1] = "list"
         /\ \A i \in 1..Len(NodeOf(json)[2][C7_FieldOf(c)][2]) :
              WellFormedOffer(NodeOf(json)[2][C7_FieldOf(c)][2][i])

C7_OffersMapping ==
  (Returned("parse_offers_for_countries_response")
     /\ HasNodeObject(call.json)
     /\ C7_Requested(call.json, call.countries))
    => /\ result[1] = "dict"
       /\ DOMAIN result[2] = {Text(c) : c \in call.countries}
       /\ \A c \in call.countries :
            IF HasKey(NodeOf(call.json), C7_FieldOf(c))
            THEN LET offers == NodeOf(call.json)[2][C7_FieldOf(c)][2]
                 IN  /\ result[2][Text(c)][1] = "list"
                     /\ Len(result[2][Text(c)][2]) = Len(offers)
                     /\ \A i \in 1..Len(offers) :
                          /\ result[2][Text(c)][2][i] = _parse_offer(offers[i])
                          /\ result[2][Text(c)][2][i][1] = "Offer"
                          /\ result[2][Text(c)][2][i][2].id = Get(offers[i], "id")
            ELSE result[2][Text(c)] = PyList(<<>>)
       /\ \A k \in DOMAIN NodeOf(call.json)[2] :
            (\A c \in call.countries : Text(c) # k) => k \notin DOMAIN result[2]

C7_Witness ==
  /\ Returned("parse_offers_for_countries_response")
  /\ call.countries = {<<"u", "s">>, <<"s", "u">>}
  /\ HasNodeObject(call.json)
  /\ HasKey(NodeOf(call.json), "US")
  /\ ~HasKey(NodeOf(call.json), "SU")
  /\ result[1] = "dict"
  /\ Len(result[2]["us"][2]) = 1
  /\ result[2]["su"] = PyList(<<>>)

(***************************************************************************)
(* C8: normalizing a title entry turns a relative image path that is       *)
(* present into image host + path (poster, each backdrop) and an absent    *)
(* one into a null field, without an error: for the poster when posterUrl  *)
(* is absent and for a backdrop object whose backdropUrl is absent.        *)
(***************************************************************************)
C8_Host == "https://images.justwatch.com"

C8_Url(obj, k) == IF HasKey(obj, k) THEN PyStr(C8_Host \o obj[2][k][2]) ELSE PyNone

C8_ImagePaths ==
  (Returned("parse_details_response")
     /\ ~HasKey(call.json, "errors")
     /\ HasNodeObject(call.json)
     /\ PyDict(Without(NodeOf(call.json)[2], {"content"})) = PyDict(Without(EntryJson, {"content"}))
     /\ HasKey(NodeOf(call.json), "content")
     /\ \A k \in DOMAIN ContentJson \ {"posterUrl", "backdrops"} :
          HasKey(NodeOf(call.json)[2]["content"], k)
          /\ NodeOf(call.json)[2]["content"][2][k] = ContentJson[k])
    => LET content == NodeOf(call.json)[2]["content"]
           backdrops == GetOr(content, "backdrops", PyList(<<>>))[2]
       IN  ((HasKey(content, "posterUrl") => content[2]["posterUrl"][1] = "str")
            /\ \A i \in 1..Len(backdrops) :
                 /\ backdrops[i][1] = "dict"
                 /\ DOMAIN backdrops[i][2] # {})
             => /\ result[1] = "MediaEntry"
                /\ result[2].poster = C8_Url(content, "posterUrl")
                /\ result[2].backdrops =
                     PyList([i \in 1..Len(backdrops) |-> C8_Url(backdrops[i], "backdropUrl")])

(***************************************************************************)
(* C9: for an offer object with a well-formed package, element_count is 0  *)
(* when elementCount is absent and the source value when it is present;    *)
(* every other field whose source field is absent is None: price_string,   *)
(* price_value, last_change_retail_price_value, available_to,              *)
(* deeplink_roku, and so every other field: none gets a numeric default.   *)
(***************************************************************************)
C9_SourceKey ==
  [id |-> "id", monetization_type |-> "monetizationType",
   presentation_type |-> "presentationType", price_string |-> "retailPrice",
   price_value |-> "retailPriceValue", price_currency |-> "currency",
   last_change_retail_price_value |-> "lastChangeRetailPriceValue", type |-> "type",
   url |-> "standardWebURL", element_count |-> "elementCount",
   available_to |-> "availableTo", deeplink_roku |-> "deeplinkRoku",
   subtitle_languages |-> "subtitleLanguages", video_technology |-> "videoTechnology",
   audio_technology |-> "audioTechnology", audio_languages |-> "audioLanguages"]

C9_Normalized(source, offer) ==
  /\ offer[1] = "Offer"
  /\ DOMAIN offer[2] = DOMAIN C9_SourceKey \cup {"package"}
  /\ \A f \in DOMAIN C9_SourceKey :
       IF HasKey(source, C9_SourceKey[f]) THEN offer[2][f] = source[2][C9_SourceKey[f]]
       ELSE IF f = "element_count" THEN offer[2][f] = PyInt(0)
       ELSE offer[2][f] = PyNone

C9_OfferDefaults ==
  /\ (Returned("parse_offers_for_countries_response")
        /\ HasNodeObject(call.json)
        /\ C7_Requested(call.json, call.countries))
       => \A c \in call.countries :
            HasKey(NodeOf(call.json), C7_FieldOf(c))
              => LET offers == NodeOf(call.json)[2][C7_FieldOf(c)][2]
                 IN  /\ result[1] = "dict"
                     /\ \A i \in 1..Len(offers) :
                          C9_Normalized(offers[i], result[2][Text(c)][2][i])
  /\ (Returned("parse_details_response") /\ result[1] = "MediaEntry")
       => LET offers == SelectSeq(GetOr(NodeOf(call.json), "offers", PyList(<<>>))[2],
                                  WellFormedOffer)
          IN  /\ Len(result[2].offers[2]) = Len(offers)
              /\ \A i \in 1..Len(offers) :
                   C9_Normalized(offers[i], result[2].offers[2][i])

C9_Witness ==
  /\ Returned("parse_offers_for_countries_response")
  /\ call.countries = {<<"u", "s">>}
  /\ HasNodeObject(call.json)
  /\ HasKey(NodeOf(call.json), "US")
  /\ NodeOf(call.json)[2]["US"] =
       PyList(<<PyDict(Without(FullOfferJson, {"elementCount", "retailPriceValue"}))>>)
  /\ result[1] = "dict"
  /\ result[2]["us"][2][1][2].element_count = PyInt(0)
  /\ result[2]["us"][2][1][2].price_value = PyNone
  /\ result[2]["us"][2][1][2].price_string = PyStr("$1.99")

(***************************************************************************)
(* C10: wherever a sequence field is built from a list of nested objects,  *)
(* null entries of the list are filtered out before mapping and cause no   *)
(* error, and the result holds one element per non-null entry, in source   *)
(* order: for the genres, backdrops and offers of a title entry, and for   *)
(* the per-country offer lists of parse_offers_for_countries_response.     *)
(***************************************************************************)
C10_NonNull(list) == SelectSeq(list, IsNotNone)

C10_WellFormedGenre(g) == HasKey(g, "shortName")

C10_WellFormedBackdrop(b) == HasKey(b, "backdropUrl") /\ b[2]["backdropUrl"][1] = "str"

\* the list under key k of d (empty when absent) holds only nulls and entries that pass
C10_NullsAnd(d, k, WellFormed(_)) ==
  /\ GetOr(d, k, PyList(<<>>))[1] = "list"
  /\ \A i \in 1..Len(GetOr(d, k, PyList(<<>>))[2]) :
       LET x == GetOr(d, k, PyList(<<>>))[2][i]
       IN  x = PyNone \/ WellFormed(x)

C10_NullEntriesFiltered ==
  /\ (Returned("parse_details_response")
        /\ ~HasKey(call.json, "errors")
        /\ HasNodeObject(call.json)
        /\ HasKey(NodeOf(call.json), "content")
        /\ HasKey(NodeOf(call.json)[2]["content"], "fullPath")
        /\ C10_NullsAnd(NodeOf(call.json)[2]["content"], "genres", C10_WellFormedGenre)
        /\ C10_NullsAnd(NodeOf(call.json)[2]["content"], "backdrops", C10_WellFormedBackdrop)
        /\ C10_NullsAnd(NodeOf(call.json), "offers", WellFormedOffer))
       => LET content == NodeOf(call.json)[2]["content"]
              genres == C10_NonNull(GetOr(content, "genres", PyList(<<>>))[2])
              backdrops == C10_NonNull(GetOr(content, "backdrops", PyList(<<>>))[2])
              offers == C10_NonNull(GetOr(NodeOf(call.json), "offers", PyList(<<>>))[2])
          IN  /\ result[1] = "MediaEntry"
              /\ result[2].genres = PyList([i \in 1..Len(genres) |-> genres[i][2]["shortName"]])
              /\ result[2].backdrops =
                   PyList([i \in 1..Len(backdrops) |-> C8_Url(backdrops[i], "backdropUrl")])
              /\ result[2].offers = PyList([i \in 1..Len(offers) |-> _parse_offer(offers[i])])
  /\ (Returned("parse_offers_for_countries_response")
        /\ HasNodeObject(call.json)
        /\ \A c \in call.countries : C10_NullsAnd(NodeOf(call.json), C7_FieldOf(c), WellFormedOffer))
       => /\ result[1] = "dict"
          /\ \A c \in call.countries :
               LET offers == C10_NonNull(GetOr(NodeOf(call.json), C7_FieldOf(c), PyList(<<>>))[2])
               IN  result[2][Text(c)] = PyList([i \in 1..Len(offers) |-> _parse_offer(offers[i])])

(***************************************************************************)
(* C11: each entry or offer of a collection is normalized independently:   *)
(* an unexpected or a missing sibling field on one title entry or on one   *)
(* offer does not abort the normalization of the collection around it (the *)
(* search result list, a country's offers list), so the call returns the   *)
(* collection and the other elements are in it.  The blocks the normalizer *)
(* requires (node, content, package with its icon) are present throughout. *)
(***************************************************************************)
\* a title entry that has its content block and whose offers have their packages
C11_HasRequiredBlocks(entry) ==
  /\ HasKey(entry, "content")
  /\ entry[2]["content"][1] = "dict"
  /\ C10_NullsAnd(entry, "offers", WellFormedOffer)

C11_IndependentEntries ==
  /\ (Returned("parse_search_response")
        /\ HasKey(call.json, "data")
        /\ HasKey(call.json[2]["data"], "popularTitles")
        /\ HasKey(call.json[2]["data"][2]["popularTitles"], "edges")
        /\ call.json[2]["data"][2]["popularTitles"][2]["edges"][1] = "list"
        /\ \A i \in 1..Len(call.json[2]["data"][2]["popularTitles"][2]["edges"][2]) :
             LET edge == call.json[2]["data"][2]["popularTitles"][2]["edges"][2][i]
             IN  HasKey(edge, "node") /\ C11_HasRequiredBlocks(edge[2]["node"]))
       => LET edges == call.json[2]["data"][2]["popularTitles"][2]["edges"][2]
          IN  \A i \in 1..Len(edges) :
                ~IsRaise(_parse_entry(edges[i][2]["node"]))
                  => /\ result[1] = "list"
                     /\ \E j \in 1..Len(result[2]) :
                          result[2][j] = _parse_entry(edges[i][2]["node"])
  /\ (Returned("parse_offers_for_countries_response")
        /\ HasNodeObject(call.json)
        /\ C7_Requested(call.json, call.countries))
       => /\ result[1] = "dict"
          /\ \A c \in call.countries :
               Len(result[2][Text(c)][2])
                 = Len(GetOr(NodeOf(call.json), C7_FieldOf(c), PyList(<<>>))[2])

====
